---- MODULE Spec2Model ----
(***************************************************************************)
(* Managed process registry and lifecycle reconciler of the-dev-server MCP *)
(* (unnamed/part_007, the version with byte-offset log tracking).          *)
(*                                                                         *)
(* Every tool handler is one action.  The supervisor (PM2) is the          *)
(* environment: its process list is a sequence that allows several         *)
(* entries with one name, each of its commands may fail, and its           *)
(* processes write to their log files and exit on their own.               *)
(***************************************************************************)
EXTENDS Integers, Sequences, FiniteSets, TLC

(* ---------------- bounds of the model ---------------- *)
MaxProcs == 2
MaxLog == 2
\* the most links one log text holds
MaxLinks == 2
\* the most tool calls that wait for the supervisor at the same time
MaxCalls == 2

(* ---------------- program constants ---------------- *)
\* maxBytes = 1024 * 1024 in the fresh-read path, scaled to the model's log sizes
MaxBytes == 1

Names == {"a", "b"}
Scripts == {"s1", "s2"}
Status == {"online", "stopped", "errored"}
Streams == {"all", "out", "error"}

\* logOffset?: number -- NoOffset stands for the field being undefined
NoOffset == -1

\* env?: Record<string, string> as a set of <<key, value>> pairs; NoEnv is
\* the config without environment variables
NoEnv == {}
Envs == {{<<"PORT", "4000">>}, {<<"HOST", "h">>}}

\* autorestart?: boolean -- Undefined stands for the field being absent
Undefined == "-"
Autorestart == {"true", "false"}

\* the ...updates of an update call: a function from the supplied field
\* names to their values
NoUpdate == [f \in {} |-> "-"]
Updates ==
  {NoUpdate} \cup {[script |-> "s2"]} \cup {[env |-> e] : e \in Envs}

\* the update calls that supply autorestart
AutorestartUpdates == {[autorestart |-> v] : v \in Autorestart}

(* ---------------- registry document ---------------- *)

\* interface ManagedProcessConfig
ManagedProcessConfig(n, s) ==
  [name |-> n, script |-> s, env |-> NoEnv, autorestart |-> Undefined, logOffset |-> NoOffset]

\* managedProcesses: {} -- the registry with no entry
EmptyRegistry == [n \in {} |-> ManagedProcessConfig("a", "s1")]

\* Variant of stringify that leaves logOffset out of every entry.
stringifyNoOffset(reg) ==
  [n \in DOMAIN reg |->
     [f \in {"name", "script", "env"}
             \cup (IF reg[n].autorestart = Undefined THEN {} ELSE {"autorestart"}) |-> reg[n][f]]]

\* JSON.stringify of managedProcesses: each entry keeps the fields that are
\* defined; a logOffset that is undefined is not written
stringify(reg) ==
  [n \in DOMAIN reg |->
     [f \in {"name", "script", "env"}
             \cup (IF reg[n].autorestart = Undefined THEN {} ELSE {"autorestart"})
             \cup (IF reg[n].logOffset = NoOffset THEN {} ELSE {"logOffset"}) |-> reg[n][f]]]

\* JSON.parse of a complete document: a field that is absent reads as undefined
parse(doc) ==
  [n \in DOMAIN doc |->
     [name |-> doc[n].name, script |-> doc[n].script, env |-> doc[n].env,
      autorestart |-> IF "autorestart" \in DOMAIN doc[n] THEN doc[n].autorestart ELSE Undefined,
      logOffset |-> IF "logOffset" \in DOMAIN doc[n] THEN doc[n].logOffset ELSE NoOffset]]

\* the state file before the first write
MissingFile == [kind |-> "missing", doc |-> stringify(EmptyRegistry)]

\* a state file whose bytes were damaged: what is left of the document file
\* held cannot be read or is not valid JSON
CorruptFile(file) == [kind |-> "corrupt", doc |-> file.doc]

\* a state file that is whole on disk but whose fs.readFile fails (no
\* permission to read, no file descriptor left)
UnreadableFile(file) == [kind |-> "unreadable", doc |-> file.doc]

\* the state file after a successful fs.writeFile of the registry reg
WrittenFile(reg) == [kind |-> "ok", doc |-> stringify(reg)]

\* fs.writeFile(STATE_FILE, ...) between its open, which truncates the file,
\* and the end of its write: the file holds a proper prefix of the new
\* document.  prev is the registry a load gave before the write began, and
\* writing says whether the write is still going on.
PartialFile(file, reg) ==
  [kind |-> "partial", doc |-> stringify(reg),
   prev |-> IF file.kind = "ok" THEN parse(file.doc) ELSE EmptyRegistry,
   writing |-> TRUE]

Writing(file) == file.kind = "partial" /\ file.writing

\* Variant of loadState that trusts the file to be there and to be valid.
loadStateUnchecked(file) == parse(file.doc)

\* loadState: the registry held in serverState after the load; a failed
\* readFile or JSON.parse is caught and gives the empty registry
loadState(file) == IF file.kind = "ok" THEN parse(file.doc) ELSE EmptyRegistry

\* serverState.managedProcesses[name] is defined
IsRegistered(reg, n) == n \in DOMAIN reg

\* serverState.managedProcesses[name] = config
PutConfig(reg, n, cfg) == [m \in (DOMAIN reg) \cup {n} |-> IF m = n THEN cfg ELSE reg[m]]

\* delete serverState.managedProcesses[name]
RemoveConfig(reg, n) == [m \in (DOMAIN reg) \ {n} |-> reg[m]]

\* serverState.managedProcesses[name].logOffset = size
SetOffset(reg, n, off) ==
  [m \in DOMAIN reg |-> IF m = n THEN [reg[m] EXCEPT !.logOffset = off] ELSE reg[m]]

\* Variant of lookupConfig: a start of an unknown name registers it with
\* default settings instead of throwing.
lookupConfigDefault(reg, n) ==
  IF IsRegistered(reg, n)
  THEN [found |-> TRUE, reg |-> reg, cfg |-> reg[n]]
  ELSE [found |-> TRUE, reg |-> PutConfig(reg, n, ManagedProcessConfig(n, "s1")),
        cfg |-> ManagedProcessConfig(n, "s1")]

\* const config = serverState.managedProcesses[name]; if (!config) throw ...
lookupConfig(reg, n) ==
  IF IsRegistered(reg, n)
  THEN [found |-> TRUE, reg |-> reg, cfg |-> reg[n]]
  ELSE [found |-> FALSE, reg |-> reg, cfg |-> ManagedProcessConfig(n, "s1")]

\* Variant of MergeConfig that starts from a new config: the fields that
\* are not supplied fall back to their defaults.
MergeConfigFromDefaults(existing, upd, n) ==
  [f \in DOMAIN existing |->
     IF f = "name" THEN n
     ELSE IF f \in DOMAIN upd THEN upd[f]
     ELSE ManagedProcessConfig(n, existing.script)[f]]

\* { ...existing, ...updates, name } of the update handler
MergeConfig(existing, upd, n) ==
  [f \in DOMAIN existing |->
     IF f = "name" THEN n ELSE IF f \in DOMAIN upd THEN upd[f] ELSE existing[f]]

(* ---------------- supervisor process list ---------------- *)

HasProc(procs, n) == \E i \in 1..Len(procs) : procs[i].name = n

CountProcs(procs, n) == Cardinality({i \in 1..Len(procs) : procs[i].name = n})

\* processes.find(p => p.name === name): the status of the first match
FirstStatus(procs, n) ==
  LET i == CHOOSE k \in 1..Len(procs) :
             /\ procs[k].name = n
             /\ \A j \in 1..(k - 1) : procs[j].name # n
  IN procs[i].status

SetStatus(procs, n, s) ==
  [i \in 1..Len(procs) |-> IF procs[i].name = n THEN [procs[i] EXCEPT !.status = s] ELSE procs[i]]

RemoveAll(procs, n) == SelectSeq(procs, LAMBDA p : p.name # n)

\* a supervisor command as recorded in the trace of one operation
Cmd(c, n) == <<c, n>>

\* getPm2ProcessInfo: "none" for null (no match, or jlist failed or unparsable),
\* otherwise the status of the first descriptor with that name
getPm2ProcessInfo(procs, n, okList) ==
  IF okList /\ HasProc(procs, n) THEN FirstStatus(procs, n) ELSE "none"

\* deletePm2Process: pm2 delete, errors ignored
deletePm2Process(procs, n, okDel) ==
  IF okDel /\ HasProc(procs, n) THEN RemoveAll(procs, n) ELSE procs

\* stopPm2Process: pm2 stop, errors ignored
stopPm2Process(procs, n, okStop) ==
  IF okStop /\ HasProc(procs, n) THEN SetStatus(procs, n, "stopped") ELSE procs

\* restartPm2Process: pm2 restart, the error of an unknown name or of an
\* unavailable supervisor is thrown
restartPm2Process(procs, n, okRestart) ==
  IF okRestart /\ HasProc(procs, n)
  THEN [procs |-> SetStatus(procs, n, "online"), err |-> FALSE]
  ELSE [procs |-> procs, err |-> TRUE]

\* Variant of createPm2Process that passes --no-autorestart only for a
\* config whose autorestart is false.
createPm2ProcessOptOut(procs, cfg, okCreate) ==
  IF okCreate
  THEN [procs |-> Append(procs, [name |-> cfg.name, status |-> "online",
                                 script |-> cfg.script, env |-> cfg.env,
                                 noAutorestart |-> cfg.autorestart = "false"]),
        err |-> FALSE]
  ELSE [procs |-> procs, err |-> TRUE]

\* runPm2('pm2 start <script> --name <name> ...'): a new entry, whatever the
\* list holds; noAutorestart says whether the command line carries
\* --no-autorestart
createPm2Process(procs, cfg, okCreate) ==
  IF okCreate
  THEN [procs |-> Append(procs, [name |-> cfg.name, status |-> "online",
                                 script |-> cfg.script, env |-> cfg.env,
                                 noAutorestart |-> cfg.autorestart # "true"]),
        err |-> FALSE]
  ELSE [procs |-> procs, err |-> TRUE]

\* Variant of startPm2Process without the `status === 'online'` return: an
\* online process is deleted and created again like one in any other state.
startPm2ProcessNoOnlineBranch(cfg, procs, okList, okDel, okRun) ==
  LET n == cfg.name
      status == getPm2ProcessInfo(procs, n, okList)
      listed == <<Cmd("jlist", n)>>
  IN IF status = "stopped"
     THEN LET r == restartPm2Process(procs, n, okRun)
          IN [procs |-> r.procs, cmds |-> listed \o <<Cmd("restart", n)>>,
              err |-> r.err, seen |-> status]
     ELSE LET afterDel == IF status = "none" THEN procs ELSE deletePm2Process(procs, n, okDel)
              delCmd == IF status = "none" THEN <<>> ELSE <<Cmd("delete", n)>>
              r == createPm2Process(afterDel, cfg, okRun)
          IN [procs |-> r.procs, cmds |-> listed \o delCmd \o <<Cmd("create", n)>>,
              err |-> r.err, seen |-> status]

\* Variant of startPm2Process without the `status === 'stopped'` branch: a
\* stopped process is deleted and created again.
startPm2ProcessNoStoppedBranch(cfg, procs, okList, okDel, okRun) ==
  LET n == cfg.name
      status == getPm2ProcessInfo(procs, n, okList)
      listed == <<Cmd("jlist", n)>>
  IN IF status = "online"
     THEN [procs |-> procs, cmds |-> listed, err |-> FALSE, seen |-> status]
     ELSE LET afterDel == IF status = "none" THEN procs ELSE deletePm2Process(procs, n, okDel)
              delCmd == IF status = "none" THEN <<>> ELSE <<Cmd("delete", n)>>
              r == createPm2Process(afterDel, cfg, okRun)
          IN [procs |-> r.procs, cmds |-> listed \o delCmd \o <<Cmd("create", n)>>,
              err |-> r.err, seen |-> status]

\* Variant of startPm2Process that does not wait for the delete: the create
\* is issued first and the delete of the stale entry lands after it.
startPm2ProcessCreateFirst(cfg, procs, okList, okDel, okRun) ==
  LET n == cfg.name
      status == getPm2ProcessInfo(procs, n, okList)
      listed == <<Cmd("jlist", n)>>
  IN IF status = "online"
     THEN [procs |-> procs, cmds |-> listed, err |-> FALSE, seen |-> status]
     ELSE IF status = "stopped"
     THEN LET r == restartPm2Process(procs, n, okRun)
          IN [procs |-> r.procs, cmds |-> listed \o <<Cmd("restart", n)>>,
              err |-> r.err, seen |-> status]
     ELSE LET r == createPm2Process(procs, cfg, okRun)
              afterDel == IF status = "none" THEN r.procs ELSE deletePm2Process(r.procs, n, okDel)
              delCmd == IF status = "none" THEN <<>> ELSE <<Cmd("delete", n)>>
          IN [procs |-> afterDel, cmds |-> listed \o <<Cmd("create", n)>> \o delCmd,
              err |-> r.err, seen |-> status]

\* startPm2Process, the duplicate-prevention reconciler, from the point where
\* getPm2ProcessInfo has answered with status.  okDel and okRun say whether
\* pm2 delete and the one lifecycle command that is run (pm2 restart or pm2
\* start) succeed.
startPm2ProcessAfterQuery(cfg, procs, status, okDel, okRun) ==
  LET n == cfg.name
      listed == <<Cmd("jlist", n)>>
  IN IF status = "online"
     THEN [procs |-> procs, cmds |-> listed, err |-> FALSE, seen |-> status]
     ELSE IF status = "stopped"
     THEN LET r == restartPm2Process(procs, n, okRun)
          IN [procs |-> r.procs, cmds |-> listed \o <<Cmd("restart", n)>>,
              err |-> r.err, seen |-> status]
     ELSE LET afterDel == IF status = "none" THEN procs ELSE deletePm2Process(procs, n, okDel)
              delCmd == IF status = "none" THEN <<>> ELSE <<Cmd("delete", n)>>
              r == createPm2Process(afterDel, cfg, okRun)
          IN [procs |-> r.procs, cmds |-> listed \o delCmd \o <<Cmd("create", n)>>,
              err |-> r.err, seen |-> status]

\* startPm2Process run without a break: the status it acts on is the one the
\* process has when the lifecycle command is issued
startPm2Process(cfg, procs, okList, okDel, okRun) ==
  startPm2ProcessAfterQuery(cfg, procs, getPm2ProcessInfo(procs, cfg.name, okList), okDel, okRun)

\* pm2ProcessMap.get(name): Map.set overwrites, so the last descriptor of
\* that name in the jlist output
LastProc(procs, n) ==
  LET i == CHOOSE k \in 1..Len(procs) :
             /\ procs[k].name = n
             /\ \A j \in (k + 1)..Len(procs) : procs[j].name # n
  IN procs[i]

\* memory: pm2 reports monit.memory as 0 for a process that is not running,
\* and the handler turns a zero figure into undefined
NoMemory == "-"
memoryOf(p) == IF p.status = "online" THEN "MB" ELSE NoMemory

\* the servers list before any status was asked for
NoServers == [n \in {} |-> [status |-> "stopped", memory |-> NoMemory]]

\* Variant of serverStatus without the `|| 'stopped'` default: an entry
\* without a descriptor has no status.
serverStatusNoDefault(procs, n, listed) ==
  IF listed /\ HasProc(procs, n)
  THEN [status |-> LastProc(procs, n).status, memory |-> memoryOf(LastProc(procs, n))]
  ELSE [status |-> "-", memory |-> NoMemory]

\* one element of the servers list of get-managed-processes; listed says
\* whether pm2 jlist ran and its output parsed
serverStatus(procs, n, listed) ==
  IF listed /\ HasProc(procs, n)
  THEN [status |-> LastProc(procs, n).status, memory |-> memoryOf(LastProc(procs, n))]
  ELSE [status |-> "stopped", memory |-> NoMemory]

(* ---------------- log files of the supervisor ---------------- *)

\* A log file: whether it exists, its size in bytes, and how many of its
\* leading bytes were already there at the last offset capture of its name
\* (the file is append-only between truncations, so those bytes are a prefix).
NoFile == [exists |-> FALSE, size |-> 0, old |-> 0, links |-> <<>>]
EmptyLog == [exists |-> TRUE, size |-> 0, old |-> 0, links |-> <<>>]

\* getPm2LogPath(name, type): <name>-error.log for 'error', <name>-out.log otherwise
getPm2LogPath(type) == IF type = "error" THEN "err" ELSE "out"

\* a process creates its log file, then appends to it
WriteLog(f) ==
  IF ~f.exists THEN EmptyLog
  ELSE IF f.size < MaxLog THEN [f EXCEPT !.size = @ + 1] ELSE f

HasOnline(procs, n) == \E i \in 1..Len(procs) : procs[i].name = n /\ procs[i].status = "online"

\* what the process did to its log files between the lifecycle command and
\* the fs.stat that follows it
Wrote == {"none", "out", "err"}

\* the log files of n at the fs.stat that follows a lifecycle command
AfterWait(lg, n, procs, wrote) ==
  IF wrote # "none" /\ HasOnline(procs, n) THEN [lg EXCEPT ![n][wrote] = WriteLog(@)] ELSE lg

\* pm2 flush <name>: the log files of a listed process are emptied
flushLogs(lg, n, procs, okFlush) ==
  IF okFlush /\ HasProc(procs, n)
  THEN [lg EXCEPT ![n] = [f \in {"out", "err"} |-> IF lg[n][f].exists THEN EmptyLog ELSE NoFile]]
  ELSE lg

\* the offset-capture moment of start and restart: every byte now in the
\* log files of n predates the capture
MarkCaptured(lg, n) ==
  [lg EXCEPT ![n] = [f \in {"out", "err"} |-> [lg[n][f] EXCEPT !.old = lg[n][f].size]]]

Min(x, y) == IF x < y THEN x ELSE y

\* a process appends lines with the links ls to its log file
PrintLog(f, ls) ==
  IF ls = <<>> THEN f
  ELSE [exists |-> TRUE, size |-> Min(f.size + Len(ls), MaxLog), old |-> f.old,
        links |-> f.links \o ls]

\* the log files of n after its process, if it is online, printed the links ls
Printed(lg, n, procs, ls) ==
  IF HasOnline(procs, n) THEN [lg EXCEPT ![n].out = PrintLog(@, ls)] ELSE lg

(* ---------------- address detection of start ---------------- *)
(* A string is a sequence of tokens, and a string includes a word when one  *)
(* of its tokens is that word.  A log text is what the URL search and the   *)
(* port pattern make of it: the hrefs of the links linkify finds, in text   *)
(* order, and the one place where a port label may stand.                    *)

LoopbackHosts == {"localhost", "127.0.0.1", "0.0.0.0"}
Hosts == LoopbackHosts \cup {"192.168.1.5"}

\* what follows the host in an href: nothing, a slash, or a path that names
\* a loopback host
Paths == {<<>>, <<"/">>, <<"/", "localhost">>}

Hrefs == {<<"http://", h>> \o p : h \in Hosts, p \in Paths}

hostOf(href) == href[2]

\* href.includes(word)
includes(href, word) == \E i \in 1..Len(href) : href[i] = word

RECURSIVE stripSlashes(_)
\* href.replace(/\/+$/, '')
stripSlashes(href) ==
  IF Len(href) > 0 /\ href[Len(href)] = "/"
  THEN stripSlashes(SubSeq(href, 1, Len(href) - 1))
  ELSE href

\* a place in the text where a word is followed by separators and digits
NoPortLine == [label |-> "-", sep |-> "", digits |-> <<>>]
PortLabels == {"port", "Port", "PORT", "pOrt"}
PortSeps == {"", " ", ":"}
PortDigits == {<<"8", "0">>, <<"4", "4", "3">>, <<"3", "0", "0", "0">>,
               <<"6", "5", "5", "3", "5">>}
PortLines == [label : PortLabels, sep : PortSeps, digits : PortDigits]

\* logs.match(/(?:port|Port|PORT)[\s:]+(\d{4,5})/): the captured digits, or
\* the empty sequence for null
portMatch(line) ==
  IF /\ line.label \in {"port", "Port", "PORT"}
     /\ line.sep # ""
     /\ Len(line.digits) >= 4
  THEN SubSeq(line.digits, 1, IF Len(line.digits) < 5 THEN Len(line.digits) ELSE 5)
  ELSE <<>>

\* the output of pm2 logs --lines 100 --nostream, or the failure of that command
FetchFailed == [fetched |-> FALSE, links |-> <<>>, port |-> NoPortLine]
NoText == [fetched |-> TRUE, links |-> <<>>, port |-> NoPortLine]

RECURSIVE SeqsUpTo(_, _)
SeqsUpTo(S, k) ==
  IF k = 0 THEN {<<>>}
  ELSE SeqsUpTo(S, k - 1) \cup {Append(q, x) : q \in SeqsUpTo(S, k - 1), x \in S}

\* pm2 logs <name> --lines 100 --nostream: the last lines of the log, the
\* ones earlier runs left there included
TailText(lg, n) == [fetched |-> TRUE, links |-> lg[n].out.links, port |-> NoPortLine]

Texts ==
  {[fetched |-> TRUE, links |-> ls, port |-> NoPortLine] : ls \in SeqsUpTo(Hrefs, MaxLinks)}
    \cup {[fetched |-> TRUE, links |-> <<>>, port |-> l] : l \in PortLines}
    \cup {FetchFailed}

\* links.find(link => link.href.includes(...)): the position of the first
\* link whose href includes a loopback word, 0 for undefined
localUrl(links) ==
  LET hits == {i \in 1..Len(links) : \E w \in LoopbackHosts : includes(links[i], w)}
  IN IF hits = {} THEN 0 ELSE CHOOSE i \in hits : \A j \in hits : i <= j

NoUrl == <<>>

\* urlInfo of the start handler, without its " on " prefix
urlInfo(text) ==
  IF ~text.fetched THEN NoUrl
  ELSE IF text.links # <<>>
  THEN stripSlashes(text.links[IF localUrl(text.links) # 0 THEN localUrl(text.links) ELSE 1])
  ELSE IF portMatch(text.port) # <<>>
  THEN <<"http://", "localhost", ":">> \o portMatch(text.port)
  ELSE NoUrl

(* ---------------- state ---------------- *)

VARIABLES
  stateFile,    \* STATE_FILE on disk
  serverState,  \* the module-level registry mirror (managedProcesses)
  pm2,          \* the supervisor's process list, in jlist order
  logs,         \* the supervisor's log files, per name and stream
  lastOp,       \* the tool call made by the last step and how it ended
  cmds,         \* the supervisor commands that call issued, in order
  inflight      \* the tool calls that wait for the supervisor to answer

vars == <<stateFile, serverState, pm2, logs, lastOp, cmds, inflight>>

\* no tool call is waiting
NoCalls == {}

\* the record of one tool call; opened and closed tell whether the call
\* opened a handle on a log file (fs.open) and whether it closed it
Op(op, n) ==
  [op |-> op, name |-> n, result |-> "ok", seen |-> "-", write |-> "none",
   fresh |-> FALSE, tracked |-> FALSE, stream |-> "-", path |-> "-", from |-> 0, to |-> 0,
   upd |-> NoUpdate, apply |-> FALSE, listed |-> FALSE, servers |-> NoServers,
   tail |-> "-", reconcile |-> "-", text |-> NoText, url |-> NoUrl,
   flush |-> "-", steps |-> <<>>, processes |-> <<>>,
   opened |-> FALSE, closed |-> FALSE]

\* the last step was not a tool call
NoOp == Op("none", "-")

Init ==
  /\ stateFile = MissingFile
  /\ serverState = EmptyRegistry
  /\ pm2 = <<>>
  /\ logs = [n \in Names |-> [out |-> NoFile, err |-> NoFile]]
  /\ lastOp = NoOp
  /\ cmds = <<>>
  /\ inflight = NoCalls

(* ---------------- tool handlers ---------------- *)
(* The ok* parameters are the outcomes of the calls a handler makes:       *)
(* okWrite of fs.writeFile in persistState, the others of pm2 commands.    *)

\* get-managed-processes
GetStatus(okList) ==
  LET reg0 == loadState(stateFile)
  IN /\ serverState' = reg0
     /\ lastOp' = [Op("getStatus", "-") EXCEPT
                      !.listed = okList,
                      !.servers = [n \in DOMAIN reg0 |-> serverStatus(pm2, n, okList)]]
     /\ cmds' = <<Cmd("jlist", "-")>>
     /\ UNCHANGED <<stateFile, pm2, logs>>
     /\ UNCHANGED inflight

\* no processName argument
AllProcesses == "-"

\* the processes list of get-pm2-status: the entries of pm2 jlist, those of
\* one name when a processName is given
processList(procs, processName) ==
  LET filtered == IF processName = AllProcesses
                  THEN procs
                  ELSE SelectSeq(procs, LAMBDA p : p.name = processName)
  IN [i \in DOMAIN filtered |-> [name |-> filtered[i].name, status |-> filtered[i].status]]

\* Variant of GetPm2Status without the catch: a failing pm2 jlist is an
\* error of the tool.
GetPm2StatusNoCatch(processName, okList) ==
  /\ serverState' = serverState
  /\ lastOp' = [Op("getPm2Status", processName) EXCEPT
                   !.listed = okList,
                   !.result = IF okList THEN "ok" ELSE "error",
                   !.processes = IF okList THEN processList(pm2, processName) ELSE <<>>]
  /\ cmds' = <<Cmd("jlist", "-")>>
  /\ UNCHANGED <<stateFile, pm2, logs>>
  /\ UNCHANGED inflight

\* get-pm2-status
GetPm2Status(processName, okList) ==
  /\ serverState' = serverState
  /\ lastOp' = [Op("getPm2Status", processName) EXCEPT
                   !.listed = okList,
                   !.processes = IF okList THEN processList(pm2, processName) ELSE <<>>]
  /\ cmds' = <<Cmd("jlist", "-")>>
  /\ UNCHANGED <<stateFile, pm2, logs>>
  /\ UNCHANGED inflight

\* register-managed-process
Register(n, s, startImmediately, okWrite, okList, okDel, okRun) ==
  LET reg0 == loadState(stateFile)
      config == ManagedProcessConfig(n, s)
      reg1 == PutConfig(reg0, n, config)
      r == startPm2Process(config, pm2, okList, okDel, okRun)
  IN /\ serverState' = reg1
     /\ IF ~okWrite
        THEN /\ lastOp' = [Op("register", n) EXCEPT !.result = "error", !.write = "failed"]
             /\ cmds' = <<>>
             /\ UNCHANGED <<stateFile, pm2>>
        ELSE /\ stateFile' = WrittenFile(reg1)
             /\ IF startImmediately
                THEN /\ Len(r.procs) <= MaxProcs
                     /\ pm2' = r.procs
                     /\ cmds' = r.cmds
                     /\ lastOp' = [Op("register", n) EXCEPT !.write = "ok", !.seen = r.seen,
                                      !.result = IF r.err THEN "error" ELSE "ok"]
                ELSE /\ lastOp' = [Op("register", n) EXCEPT !.write = "ok"]
                     /\ cmds' = <<>>
                     /\ UNCHANGED pm2
     /\ UNCHANGED logs
     /\ UNCHANGED inflight

\* Variant of Update that registers an unknown name from the supplied
\* fields instead of throwing.
UpdateUpsert(n, upd, applyToPm2, okWrite, okList, okDel, okRun) ==
  LET loaded == loadState(stateFile)
      reg0 == IF IsRegistered(loaded, n) THEN loaded
              ELSE PutConfig(loaded, n, ManagedProcessConfig(n, "s1"))
      updated == MergeConfig(reg0[n], upd, n)
      reg1 == PutConfig(reg0, n, updated)
      afterDel == deletePm2Process(pm2, n, okDel)
      r == startPm2Process(updated, afterDel, okList, okDel, okRun)
      base == [Op("update", n) EXCEPT !.upd = upd, !.apply = applyToPm2]
  IN /\ serverState' = reg1
     /\ IF ~okWrite
        THEN /\ lastOp' = [base EXCEPT !.result = "error", !.write = "failed"]
             /\ cmds' = <<>>
             /\ UNCHANGED <<stateFile, pm2>>
        ELSE /\ stateFile' = WrittenFile(reg1)
             /\ IF applyToPm2
                THEN /\ Len(r.procs) <= MaxProcs
                     /\ pm2' = r.procs
                     /\ cmds' = <<Cmd("delete", n)>> \o r.cmds
                     /\ lastOp' = [base EXCEPT !.write = "ok", !.seen = r.seen,
                                      !.result = IF r.err THEN "error" ELSE "ok"]
                ELSE /\ lastOp' = [base EXCEPT !.write = "ok"]
                     /\ cmds' = <<>>
                     /\ UNCHANGED pm2
     /\ UNCHANGED logs
     /\ UNCHANGED inflight

\* update-managed-process
Update(n, upd, applyToPm2, okWrite, okList, okDel, okRun) ==
  LET reg0 == loadState(stateFile)
      base == [Op("update", n) EXCEPT !.upd = upd, !.apply = applyToPm2]
  IN /\ UNCHANGED inflight
     /\ IF ~IsRegistered(reg0, n)
        THEN /\ serverState' = reg0
             /\ lastOp' = [base EXCEPT !.result = "error"]
             /\ cmds' = <<>>
             /\ UNCHANGED <<stateFile, pm2, logs>>
        ELSE LET updated == MergeConfig(reg0[n], upd, n)
                 reg1 == PutConfig(reg0, n, updated)
                 afterDel == deletePm2Process(pm2, n, okDel)
                 r == startPm2Process(updated, afterDel, okList, okDel, okRun)
             IN /\ serverState' = reg1
                /\ IF ~okWrite
                   THEN /\ lastOp' = [base EXCEPT !.result = "error", !.write = "failed"]
                        /\ cmds' = <<>>
                        /\ UNCHANGED <<stateFile, pm2>>
                   ELSE /\ stateFile' = WrittenFile(reg1)
                        /\ IF applyToPm2
                           THEN /\ Len(r.procs) <= MaxProcs
                                /\ pm2' = r.procs
                                /\ cmds' = <<Cmd("delete", n)>> \o r.cmds
                                /\ lastOp' = [base EXCEPT !.write = "ok", !.seen = r.seen,
                                                 !.result = IF r.err THEN "error" ELSE "ok"]
                           ELSE /\ lastOp' = [base EXCEPT !.write = "ok"]
                                /\ cmds' = <<>>
                                /\ UNCHANGED pm2
                /\ UNCHANGED logs

\* Variant of Start without the catch around the address detection: a
\* pm2 logs command that fails makes the start fail.
StartFetchThrows(n, okList, okDel, okRun, wrote, okWrite, text, printed) ==
  LET c == lookupConfig(loadState(stateFile), n)
      r == startPm2Process(c.cfg, pm2, okList, okDel, okRun)
      waited == AfterWait(logs, n, r.procs, wrote)
      out == waited[n].out
      reg1 == SetOffset(c.reg, n, out.size)
      done == [Op("start", n) EXCEPT !.seen = r.seen, !.reconcile = "ok",
                                     !.text = text, !.url = urlInfo(text)]
  IN /\ UNCHANGED inflight
     /\ IF ~c.found
        THEN /\ serverState' = c.reg
             /\ lastOp' = [Op("start", n) EXCEPT !.result = "error"]
             /\ cmds' = <<>>
             /\ UNCHANGED <<stateFile, pm2, logs>>
        ELSE IF r.err
        THEN /\ serverState' = c.reg
             /\ pm2' = r.procs
             /\ lastOp' = [Op("start", n) EXCEPT !.result = "error", !.seen = r.seen,
                                                 !.reconcile = "failed"]
             /\ cmds' = r.cmds
             /\ UNCHANGED <<stateFile, logs>>
        ELSE /\ Len(r.procs) <= MaxProcs
             /\ Len(logs[n].out.links) + Len(printed) <= MaxLinks
             /\ pm2' = r.procs
             /\ logs' = Printed(MarkCaptured(waited, n), n, r.procs, printed)
             /\ cmds' = r.cmds \o <<Cmd("logs", n)>>
             /\ IF ~out.exists
                THEN /\ serverState' = c.reg
                     /\ lastOp' = [done EXCEPT !.result = IF text.fetched THEN "ok" ELSE "error"]
                     /\ UNCHANGED stateFile
                ELSE /\ serverState' = reg1
                     /\ stateFile' = IF okWrite THEN WrittenFile(reg1) ELSE stateFile
                     /\ lastOp' = [done EXCEPT !.write = IF okWrite THEN "ok" ELSE "failed",
                                               !.from = c.cfg.logOffset, !.to = out.size,
                                               !.result = IF text.fetched THEN "ok" ELSE "error"]

\* Variant of Start that leaves logOffset alone when the process was found
\* online and no lifecycle command was issued.
StartKeepsOffsetWhenOnline(n, okList, okDel, okRun, wrote, okWrite, text, printed) ==
  LET c == lookupConfig(loadState(stateFile), n)
      r == startPm2Process(c.cfg, pm2, okList, okDel, okRun)
      waited == AfterWait(logs, n, r.procs, wrote)
      out == waited[n].out
      reg1 == SetOffset(c.reg, n, out.size)
      done == [Op("start", n) EXCEPT !.seen = r.seen, !.reconcile = "ok",
                                     !.text = text, !.url = urlInfo(text)]
  IN /\ UNCHANGED inflight
     /\ IF ~c.found
        THEN /\ serverState' = c.reg
             /\ lastOp' = [Op("start", n) EXCEPT !.result = "error"]
             /\ cmds' = <<>>
             /\ UNCHANGED <<stateFile, pm2, logs>>
        ELSE IF r.err
        THEN /\ serverState' = c.reg
             /\ pm2' = r.procs
             /\ lastOp' = [Op("start", n) EXCEPT !.result = "error", !.seen = r.seen,
                                                 !.reconcile = "failed"]
             /\ cmds' = r.cmds
             /\ UNCHANGED <<stateFile, logs>>
        ELSE /\ Len(r.procs) <= MaxProcs
             /\ Len(logs[n].out.links) + Len(printed) <= MaxLinks
             /\ pm2' = r.procs
             /\ cmds' = r.cmds \o <<Cmd("logs", n)>>
             /\ IF ~out.exists \/ r.seen = "online"
                THEN /\ logs' = Printed(waited, n, r.procs, printed)
                     /\ serverState' = c.reg
                     /\ lastOp' = done
                     /\ UNCHANGED stateFile
                ELSE /\ logs' = Printed(MarkCaptured(waited, n), n, r.procs, printed)
                     /\ serverState' = reg1
                     /\ stateFile' = IF okWrite THEN WrittenFile(reg1) ELSE stateFile
                     /\ lastOp' = [done EXCEPT !.write = IF okWrite THEN "ok" ELSE "failed",
                                               !.from = c.cfg.logOffset, !.to = out.size]

\* start-managed-process; text is what the pm2 logs command of the address
\* detection gives, printed the links the process writes to its stdout log
\* between the offset capture and that command
Start(n, okList, okDel, okRun, wrote, okWrite, text, printed) ==
  LET c == lookupConfig(loadState(stateFile), n)
      r == startPm2Process(c.cfg, pm2, okList, okDel, okRun)
      waited == AfterWait(logs, n, r.procs, wrote)
      out == waited[n].out
      reg1 == SetOffset(c.reg, n, out.size)
      done == [Op("start", n) EXCEPT !.seen = r.seen, !.reconcile = "ok",
                                     !.text = text, !.url = urlInfo(text)]
  IN /\ UNCHANGED inflight
     /\ IF ~c.found
        THEN /\ serverState' = c.reg
             /\ lastOp' = [Op("start", n) EXCEPT !.result = "error"]
             /\ cmds' = <<>>
             /\ UNCHANGED <<stateFile, pm2, logs>>
        ELSE IF r.err
        THEN /\ serverState' = c.reg
             /\ pm2' = r.procs
             /\ lastOp' = [Op("start", n) EXCEPT !.result = "error", !.seen = r.seen,
                                                 !.reconcile = "failed"]
             /\ cmds' = r.cmds
             /\ UNCHANGED <<stateFile, logs>>
        ELSE /\ Len(r.procs) <= MaxProcs
             /\ Len(logs[n].out.links) + Len(printed) <= MaxLinks
             /\ pm2' = r.procs
             /\ logs' = Printed(MarkCaptured(waited, n), n, r.procs, printed)
             /\ cmds' = r.cmds \o <<Cmd("logs", n)>>
             /\ IF ~out.exists
                THEN \* fs.stat throws, the catch swallows it
                     /\ serverState' = c.reg
                     /\ lastOp' = done
                     /\ UNCHANGED stateFile
                ELSE \* persistState runs inside the same try; from is the
                     \* offset the entry had, to the one it gets
                     /\ serverState' = reg1
                     /\ stateFile' = IF okWrite THEN WrittenFile(reg1) ELSE stateFile
                     /\ lastOp' = [done EXCEPT !.write = IF okWrite THEN "ok" ELSE "failed",
                                               !.from = c.cfg.logOffset, !.to = out.size]

\* start-managed-process up to the answer of pm2 jlist: the load replaces the
\* module-level serverState, config is looked up in it, and the call waits
\* with the status it was given.  loaded is the registry this call loaded.
StartQueries(id, n, okList) ==
  LET c == lookupConfig(loadState(stateFile), n)
      status == getPm2ProcessInfo(pm2, n, okList)
  IN /\ \A call \in inflight : call.id # id
     /\ serverState' = c.reg
     /\ UNCHANGED <<stateFile, pm2, logs>>
     /\ IF ~c.found
        THEN /\ lastOp' = [Op("start", n) EXCEPT !.result = "error"]
             /\ cmds' = <<>>
             /\ UNCHANGED inflight
        ELSE /\ lastOp' = [Op("start", n) EXCEPT !.result = "pending", !.seen = status]
             /\ cmds' = <<Cmd("jlist", n)>>
             /\ inflight' = inflight \cup {[id |-> id, name |-> n, cfg |-> c.cfg,
                                            seen |-> status, loaded |-> c.reg]}

\* the rest of start-managed-process for the waiting call id: the lifecycle
\* command chosen from the status the call was given, then fs.stat and the
\* write of logOffset into whatever registry serverState holds by now
StartCommands(id, okDel, okRun, wrote, okWrite) ==
  \E call \in inflight :
    LET n == call.name
        r == startPm2ProcessAfterQuery(call.cfg, pm2, call.seen, okDel, okRun)
        waited == AfterWait(logs, n, r.procs, wrote)
        out == waited[n].out
        reg1 == SetOffset(serverState, n, out.size)
        done == [Op("start", n) EXCEPT !.seen = call.seen, !.reconcile = "ok"]
    IN /\ call.id = id
       /\ inflight' = inflight \ {call}
       /\ pm2' = r.procs
       /\ cmds' = r.cmds \o (IF r.err THEN <<>> ELSE <<Cmd("logs", n)>>)
       /\ IF r.err
          THEN /\ lastOp' = [Op("start", n) EXCEPT !.result = "error", !.seen = call.seen,
                                                   !.reconcile = "failed"]
               /\ UNCHANGED <<stateFile, serverState, logs>>
          ELSE /\ Len(r.procs) <= MaxProcs
               /\ logs' = MarkCaptured(waited, n)
               /\ IF ~out.exists \/ ~IsRegistered(serverState, n)
                  THEN \* fs.stat or the assignment throws, the catch swallows it
                       /\ lastOp' = done
                       /\ UNCHANGED <<stateFile, serverState>>
                  ELSE /\ serverState' = reg1
                       /\ stateFile' = IF okWrite THEN WrittenFile(reg1) ELSE stateFile
                       /\ lastOp' = [done EXCEPT !.write = IF okWrite THEN "ok" ELSE "failed"]

\* Variant of Stop that loads the registry and refuses a name that is not
\* registered.
StopRegisteredOnly(n, okStop) ==
  LET reg0 == loadState(stateFile)
  IN /\ serverState' = reg0
     /\ pm2' = IF IsRegistered(reg0, n) THEN stopPm2Process(pm2, n, okStop) ELSE pm2
     /\ lastOp' = [Op("stop", n) EXCEPT !.result = IF IsRegistered(reg0, n) THEN "ok" ELSE "error"]
     /\ cmds' = IF IsRegistered(reg0, n) THEN <<Cmd("stop", n)>> ELSE <<>>
     /\ UNCHANGED <<stateFile, logs>>
     /\ UNCHANGED inflight

\* stop-managed-process
Stop(n, okStop) ==
  /\ pm2' = stopPm2Process(pm2, n, okStop)
  /\ lastOp' = Op("stop", n)
  /\ cmds' = <<Cmd("stop", n)>>
  /\ UNCHANGED <<stateFile, serverState, logs>>
  /\ UNCHANGED inflight

\* describe-managed-process: pm2 describe <name>, whose failure is the tool's
\* failure; the registry is neither loaded nor written
Describe(n, okDescribe) ==
  /\ lastOp' = [Op("describe", n) EXCEPT !.result = IF okDescribe THEN "ok" ELSE "error"]
  /\ cmds' = <<Cmd("describe", n)>>
  /\ UNCHANGED <<stateFile, serverState, pm2, logs>>
  /\ UNCHANGED inflight

\* Variant of Restart that reads the size of the log file before it issues
\* the restart command.
RestartCaptureFirst(n, okFlush, okRestart, wrote, okWrite) ==
  LET reg0 == loadState(stateFile)
      flushed == flushLogs(logs, n, pm2, okFlush)
      r == restartPm2Process(pm2, n, okRestart)
      waited == AfterWait(flushed, n, r.procs, wrote)
      out == flushed[n].out
      reg1 == SetOffset(reg0, n, out.size)
      captured == out.exists /\ IsRegistered(reg0, n)
      done == [Op("restart", n) EXCEPT
                 !.flush = IF okFlush THEN "ok" ELSE "failed",
                 !.steps = <<"flush", "stat", "restart">>,
                 !.result = IF r.err THEN "error" ELSE "ok"]
  IN /\ cmds' = <<Cmd("flush", n), Cmd("restart", n)>>
     /\ pm2' = r.procs
     /\ logs' = IF r.err THEN flushed ELSE MarkCaptured(waited, n)
     /\ serverState' = IF captured THEN reg1 ELSE reg0
     /\ stateFile' = IF captured /\ okWrite THEN WrittenFile(reg1) ELSE stateFile
     /\ lastOp' = IF captured
                  THEN [done EXCEPT !.write = IF okWrite THEN "ok" ELSE "failed"]
                  ELSE done
     /\ UNCHANGED inflight

\* Variant of Restart whose offset write is not guarded by the entry's
\* existence: it stores the offset under the name, creating the entry.
RestartUnguarded(n, okFlush, okRestart, wrote, okWrite) ==
  LET reg0 == loadState(stateFile)
      flushed == flushLogs(logs, n, pm2, okFlush)
      r == restartPm2Process(pm2, n, okRestart)
      waited == AfterWait(flushed, n, r.procs, wrote)
      out == waited[n].out
      config == IF IsRegistered(reg0, n) THEN reg0[n] ELSE ManagedProcessConfig(n, "s1")
      reg1 == PutConfig(reg0, n, [config EXCEPT !.logOffset = out.size])
      issued == [Op("restart", n) EXCEPT
                   !.flush = IF okFlush THEN "ok" ELSE "failed",
                   !.steps = <<"flush", "restart">>]
      done == [issued EXCEPT !.steps = <<"flush", "restart", "stat">>]
  IN /\ cmds' = <<Cmd("flush", n), Cmd("restart", n)>>
     /\ pm2' = r.procs
     /\ IF r.err
        THEN /\ serverState' = reg0
             /\ logs' = flushed
             /\ lastOp' = [issued EXCEPT !.result = "error"]
             /\ UNCHANGED stateFile
        ELSE /\ logs' = MarkCaptured(waited, n)
             /\ IF out.exists
                THEN /\ serverState' = reg1
                     /\ stateFile' = IF okWrite THEN WrittenFile(reg1) ELSE stateFile
                     /\ lastOp' = [done EXCEPT
                                      !.write = IF okWrite THEN "ok" ELSE "failed"]
                ELSE /\ serverState' = reg0
                     /\ lastOp' = done
                     /\ UNCHANGED stateFile
     /\ UNCHANGED inflight

\* restart-managed-process
Restart(n, okFlush, okRestart, wrote, okWrite) ==
  LET reg0 == loadState(stateFile)
      flushed == flushLogs(logs, n, pm2, okFlush)
      r == restartPm2Process(pm2, n, okRestart)
      waited == AfterWait(flushed, n, r.procs, wrote)
      out == waited[n].out
      reg1 == SetOffset(reg0, n, out.size)
      issued == [Op("restart", n) EXCEPT
                   !.flush = IF okFlush THEN "ok" ELSE "failed",
                   !.steps = <<"flush", "restart">>]
      done == [issued EXCEPT !.steps = <<"flush", "restart", "stat">>]
  IN /\ cmds' = <<Cmd("flush", n), Cmd("restart", n)>>
     /\ pm2' = r.procs
     /\ IF r.err
        THEN /\ serverState' = reg0
             /\ logs' = flushed
             /\ lastOp' = [issued EXCEPT !.result = "error"]
             /\ UNCHANGED stateFile
        ELSE /\ logs' = MarkCaptured(waited, n)
             /\ IF out.exists /\ IsRegistered(reg0, n)
                THEN /\ serverState' = reg1
                     /\ stateFile' = IF okWrite THEN WrittenFile(reg1) ELSE stateFile
                     /\ lastOp' = [done EXCEPT
                                      !.write = IF okWrite THEN "ok" ELSE "failed"]
                ELSE \* fs.stat throws, or the name is not registered
                     /\ serverState' = reg0
                     /\ lastOp' = done
                     /\ UNCHANGED stateFile
     /\ UNCHANGED inflight

\* Variant of Delete that throws for a name that has no registry entry.
DeleteStrict(n, deleteFromPm2, okDel, okWrite) ==
  LET reg0 == loadState(stateFile)
      reg1 == RemoveConfig(reg0, n)
  IN /\ UNCHANGED inflight
     /\ IF ~IsRegistered(reg0, n)
        THEN /\ serverState' = reg0
             /\ lastOp' = [Op("delete", n) EXCEPT !.result = "error"]
             /\ cmds' = <<>>
             /\ UNCHANGED <<stateFile, pm2, logs>>
        ELSE /\ serverState' = reg1
             /\ pm2' = IF deleteFromPm2 THEN deletePm2Process(pm2, n, okDel) ELSE pm2
             /\ cmds' = IF deleteFromPm2 THEN <<Cmd("delete", n)>> ELSE <<>>
             /\ stateFile' = IF okWrite THEN WrittenFile(reg1) ELSE stateFile
             /\ lastOp' = [Op("delete", n) EXCEPT !.result = IF okWrite THEN "ok" ELSE "error",
                                                  !.write = IF okWrite THEN "ok" ELSE "failed",
                                                  !.apply = deleteFromPm2]
             /\ UNCHANGED logs

\* Variant of Delete that deletes the process from the supervisor whatever
\* deleteFromPm2 says.
DeleteAlwaysFromPm2(n, deleteFromPm2, okDel, okWrite) ==
  LET reg0 == loadState(stateFile)
      reg1 == RemoveConfig(reg0, n)
  IN /\ serverState' = reg1
     /\ pm2' = deletePm2Process(pm2, n, okDel)
     /\ cmds' = <<Cmd("delete", n)>>
     /\ stateFile' = IF okWrite THEN WrittenFile(reg1) ELSE stateFile
     /\ lastOp' = [Op("delete", n) EXCEPT !.result = IF okWrite THEN "ok" ELSE "error",
                                          !.write = IF okWrite THEN "ok" ELSE "failed",
                                          !.apply = deleteFromPm2]
     /\ UNCHANGED logs
     /\ UNCHANGED inflight

\* delete-managed-process
Delete(n, deleteFromPm2, okDel, okWrite) ==
  LET reg0 == loadState(stateFile)
      reg1 == RemoveConfig(reg0, n)
  IN /\ serverState' = reg1
     /\ pm2' = IF deleteFromPm2 THEN deletePm2Process(pm2, n, okDel) ELSE pm2
     /\ cmds' = IF deleteFromPm2 THEN <<Cmd("delete", n)>> ELSE <<>>
     /\ stateFile' = IF okWrite THEN WrittenFile(reg1) ELSE stateFile
     /\ lastOp' = [Op("delete", n) EXCEPT !.result = IF okWrite THEN "ok" ELSE "error",
                                          !.write = IF okWrite THEN "ok" ELSE "failed",
                                          !.apply = deleteFromPm2]
     /\ UNCHANGED logs
     /\ UNCHANGED inflight

\* Variant of ReadLogs without the catch around the file read: a log file
\* that cannot be opened is an error, and the stored offset is dropped.
ReadLogsNoFallback(n, type, freshOnly, okWrite, okLogs) ==
  LET reg0 == loadState(stateFile)
      tracked == freshOnly /\ IsRegistered(reg0, n) /\ reg0[n].logOffset # NoOffset
      file == logs[n][getPm2LogPath(type)]
      offset == IF tracked THEN reg0[n].logOffset ELSE 0
      bytesToRead == file.size - offset
      readSize == Min(bytesToRead, MaxBytes)
      reg1 == SetOffset(reg0, n, offset + readSize)
      base == [Op("readLogs", n) EXCEPT !.fresh = freshOnly, !.tracked = tracked, !.stream = type]
      \* the pm2 logs command and its post-processing; the text it returns
      \* covers the bytes the log file holds
      tail(wrote) ==
        /\ cmds' = <<Cmd("logs", n)>>
        /\ lastOp' = [base EXCEPT !.path = "tail", !.write = wrote, !.from = 0, !.to = file.size,
                                 !.opened = (wrote = "failed"), !.closed = (wrote = "failed"),
                                 !.tail = IF okLogs THEN "ok" ELSE "failed",
                                 !.result = IF okLogs THEN "ok" ELSE "error"]
  IN /\ UNCHANGED <<pm2, logs>>
     /\ IF tracked /\ file.exists /\ bytesToRead > 0
        THEN /\ serverState' = reg1
             /\ IF okWrite
                THEN /\ stateFile' = WrittenFile(reg1)
                     /\ cmds' = <<>>
                     /\ lastOp' = [base EXCEPT !.path = "incremental", !.write = "ok",
                                              !.opened = TRUE, !.closed = TRUE,
                                              !.from = offset, !.to = offset + readSize]
                ELSE \* persistState throws inside the try: the catch falls back
                     /\ tail("failed")
                     /\ UNCHANGED stateFile
        ELSE IF tracked /\ file.exists
        THEN /\ serverState' = reg0
             /\ cmds' = <<>>
             \* fileHandle.close() is in the other branch only
             /\ lastOp' = [base EXCEPT !.path = "nonew", !.from = offset, !.to = offset,
                                      !.opened = TRUE]
             /\ UNCHANGED stateFile
        ELSE IF tracked
        THEN /\ serverState' = SetOffset(reg0, n, NoOffset)
             /\ stateFile' = WrittenFile(SetOffset(reg0, n, NoOffset))
             /\ cmds' = <<>>
             /\ lastOp' = [base EXCEPT !.path = "failed", !.result = "error", !.write = "ok"]
        ELSE IF ~freshOnly
        THEN /\ serverState' = reg0
             /\ tail("none")
             /\ UNCHANGED stateFile
        ELSE \* freshOnly with no recorded offset: neither branch runs
             /\ serverState' = reg0
             /\ cmds' = <<>>
             /\ lastOp' = [base EXCEPT !.path = "empty"]
             /\ UNCHANGED stateFile
     /\ UNCHANGED inflight

\* read-managed-process-logs
ReadLogs(n, type, freshOnly, okWrite, okLogs) ==
  LET reg0 == loadState(stateFile)
      tracked == freshOnly /\ IsRegistered(reg0, n) /\ reg0[n].logOffset # NoOffset
      file == logs[n][getPm2LogPath(type)]
      offset == IF tracked THEN reg0[n].logOffset ELSE 0
      bytesToRead == file.size - offset
      readSize == Min(bytesToRead, MaxBytes)
      reg1 == SetOffset(reg0, n, offset + readSize)
      base == [Op("readLogs", n) EXCEPT !.fresh = freshOnly, !.tracked = tracked, !.stream = type]
      \* the pm2 logs command and its post-processing; the text it returns
      \* covers the bytes the log file holds
      tail(wrote) ==
        /\ cmds' = <<Cmd("logs", n)>>
        /\ lastOp' = [base EXCEPT !.path = "tail", !.write = wrote, !.from = 0, !.to = file.size,
                                 !.opened = (wrote = "failed"), !.closed = (wrote = "failed"),
                                 !.tail = IF okLogs THEN "ok" ELSE "failed",
                                 !.result = IF okLogs THEN "ok" ELSE "error"]
  IN /\ UNCHANGED <<pm2, logs>>
     /\ IF tracked /\ file.exists /\ bytesToRead > 0
        THEN /\ serverState' = reg1
             /\ IF okWrite
                THEN /\ stateFile' = WrittenFile(reg1)
                     /\ cmds' = <<>>
                     /\ lastOp' = [base EXCEPT !.path = "incremental", !.write = "ok",
                                              !.opened = TRUE, !.closed = TRUE,
                                              !.from = offset, !.to = offset + readSize]
                ELSE \* persistState throws inside the try: the catch falls back
                     /\ tail("failed")
                     /\ UNCHANGED stateFile
        ELSE IF tracked /\ file.exists
        THEN /\ serverState' = reg0
             /\ cmds' = <<>>
             \* fileHandle.close() is in the other branch only
             /\ lastOp' = [base EXCEPT !.path = "nonew", !.from = offset, !.to = offset,
                                      !.opened = TRUE]
             /\ UNCHANGED stateFile
        ELSE IF tracked \/ ~freshOnly
        THEN \* fs.open throws and the catch falls back, or freshOnly was not asked for
             /\ serverState' = reg0
             /\ tail("none")
             /\ UNCHANGED stateFile
        ELSE \* freshOnly with no recorded offset: neither branch runs
             /\ serverState' = reg0
             /\ cmds' = <<>>
             /\ lastOp' = [base EXCEPT !.path = "empty"]
             /\ UNCHANGED stateFile
     /\ UNCHANGED inflight

(* ---------------- the controller and its state file ---------------- *)

\* register-managed-process (startImmediately not set) up to the point where
\* fs.writeFile has opened STATE_FILE
RegisterBegins(n, s) ==
  LET reg1 == PutConfig(loadState(stateFile), n, ManagedProcessConfig(n, s))
  IN /\ ~Writing(stateFile)
     /\ serverState' = reg1
     /\ stateFile' = PartialFile(stateFile, reg1)
     /\ lastOp' = [Op("register", n) EXCEPT !.write = "pending"]
     /\ cmds' = <<>>
     /\ UNCHANGED <<pm2, logs>>
     /\ UNCHANGED inflight

\* delete-managed-process (deleteFromPm2 false) up to the point where
\* fs.writeFile has opened STATE_FILE
DeleteBegins(n) ==
  LET reg1 == RemoveConfig(loadState(stateFile), n)
  IN /\ ~Writing(stateFile)
     /\ serverState' = reg1
     /\ stateFile' = PartialFile(stateFile, reg1)
     /\ lastOp' = [Op("delete", n) EXCEPT !.write = "pending"]
     /\ cmds' = <<>>
     /\ UNCHANGED <<pm2, logs>>
     /\ UNCHANGED inflight

\* fs.writeFile writes the document and the handler that waited for it returns
WriteCompletes ==
  /\ Writing(stateFile)
  /\ stateFile' = [kind |-> "ok", doc |-> stateFile.doc]
  /\ lastOp' = [Op("persist", "-") EXCEPT !.write = "ok"]
  /\ cmds' = <<>>
  /\ UNCHANGED <<serverState, pm2, logs>>
  /\ UNCHANGED inflight

\* the controller process dies, a write it had going is cut off, and a new
\* controller starts: main() runs loadState
ControllerRestarts ==
  /\ stateFile' = IF Writing(stateFile) THEN [stateFile EXCEPT !.writing = FALSE] ELSE stateFile
  /\ serverState' = loadState(stateFile')
  /\ lastOp' = Op("boot", "-")
  /\ cmds' = <<>>
  /\ UNCHANGED <<pm2, logs>>
  /\ inflight' = NoCalls

\* the state file is damaged from outside the controller
FileDamaged ==
  /\ stateFile.kind = "ok"
  /\ stateFile' = CorruptFile(stateFile)
  /\ lastOp' = NoOp
  /\ cmds' = <<>>
  /\ UNCHANGED <<serverState, pm2, logs>>
  /\ UNCHANGED inflight

\* reads of the state file begin to fail; the document stays as it is
FileUnreadable ==
  /\ stateFile.kind = "ok"
  /\ stateFile' = UnreadableFile(stateFile)
  /\ lastOp' = NoOp
  /\ cmds' = <<>>
  /\ UNCHANGED <<serverState, pm2, logs>>
  /\ UNCHANGED inflight

\* reads of the state file work again
FileReadable ==
  /\ stateFile.kind = "unreadable"
  /\ stateFile' = [kind |-> "ok", doc |-> stateFile.doc]
  /\ lastOp' = NoOp
  /\ cmds' = <<>>
  /\ UNCHANGED <<serverState, pm2, logs>>
  /\ UNCHANGED inflight

\* the state file is removed from outside the controller
FileRemoved ==
  /\ stateFile.kind # "missing"
  /\ stateFile' = MissingFile
  /\ lastOp' = NoOp
  /\ cmds' = <<>>
  /\ UNCHANGED <<serverState, pm2, logs>>
  /\ UNCHANGED inflight

(* ---------------- the supervised processes ---------------- *)

\* a running process writes to one of its log files
ProcessWrites(n, f) ==
  /\ HasOnline(pm2, n)
  /\ logs' = [logs EXCEPT ![n][f] = WriteLog(@)]
  /\ logs' # logs
  /\ lastOp' = NoOp
  /\ cmds' = <<>>
  /\ UNCHANGED <<stateFile, serverState, pm2>>
  /\ UNCHANGED inflight

\* a running process exits with an error and stays down: autorestart is
\* disabled, or the supervisor has given up restarting it
ProcessExits(i) ==
  /\ i \in 1..Len(pm2)
  /\ pm2[i].status = "online"
  /\ pm2' = [pm2 EXCEPT ![i].status = "errored"]
  /\ lastOp' = NoOp
  /\ cmds' = <<>>
  /\ UNCHANGED <<stateFile, serverState, logs>>
  /\ UNCHANGED inflight

(* ---------------- specifications ---------------- *)

\* the outcomes worth telling apart for a call that is only made when cond holds
Outcome(cond) == IF cond THEN BOOLEAN ELSE {TRUE}

\* Log tracking: every handler and the processes' log writes, on one name.
\* pm2 jlist and pm2 delete succeed here; SpecLifecycle covers their failures.
LogNames == {"a"}

Next ==
  \/ \E n \in LogNames, now, okW \in BOOLEAN : \E okRun \in Outcome(now /\ okW) :
        Register(n, "s1", now, okW, TRUE, TRUE, okRun)
  \/ \E n \in LogNames, now, okW \in BOOLEAN : \E okRun \in Outcome(now /\ okW) :
        Update(n, NoUpdate, now, okW, TRUE, TRUE, okRun)
  \/ \E n \in LogNames, okRun, okW \in BOOLEAN, w \in Wrote :
        Start(n, TRUE, TRUE, okRun, w, okW, NoText, <<>>)
  \/ \E n \in LogNames, okS \in BOOLEAN : Stop(n, okS)
  \/ \E n \in LogNames, okF, okR \in BOOLEAN : \E okW \in Outcome(okR), w \in Wrote :
        Restart(n, okF, okR, w, okW)
  \/ \E n \in LogNames, fromPm2, okW \in BOOLEAN : Delete(n, fromPm2, TRUE, okW)
  \/ \E n \in LogNames, t \in Streams, fresh, okLg \in BOOLEAN : \E okW \in Outcome(fresh) :
        ReadLogs(n, t, fresh, okW, okLg)
  \/ \E n \in LogNames, okDescribe \in BOOLEAN : Describe(n, okDescribe)
  \/ GetStatus(TRUE)
  \/ \E n \in LogNames, f \in {"out", "err"} : ProcessWrites(n, f)
  \/ \E i \in 1..MaxProcs : ProcessExits(i)

Spec == Init /\ [][Next]_vars

\* Log tracking on a disk that takes every write: Next with fs.writeFile
\* always succeeding.
NextDurable ==
  \/ \E n \in LogNames, now \in BOOLEAN : \E okRun \in Outcome(now) :
        Register(n, "s1", now, TRUE, TRUE, TRUE, okRun)
  \/ \E n \in LogNames, now \in BOOLEAN : \E okRun \in Outcome(now) :
        Update(n, NoUpdate, now, TRUE, TRUE, TRUE, okRun)
  \/ \E n \in LogNames, okRun \in BOOLEAN, w \in Wrote : Start(n, TRUE, TRUE, okRun, w, TRUE, NoText, <<>>)
  \/ \E n \in LogNames, okS \in BOOLEAN : Stop(n, okS)
  \/ \E n \in LogNames, okF, okR \in BOOLEAN, w \in Wrote : Restart(n, okF, okR, w, TRUE)
  \/ \E n \in LogNames, fromPm2 \in BOOLEAN : Delete(n, fromPm2, TRUE, TRUE)
  \/ \E n \in LogNames, t \in Streams, fresh, okLg \in BOOLEAN : ReadLogs(n, t, fresh, TRUE, okLg)
  \/ \E n \in LogNames, okDescribe \in BOOLEAN : Describe(n, okDescribe)
  \/ GetStatus(TRUE)
  \/ \E n \in LogNames, f \in {"out", "err"} : ProcessWrites(n, f)
  \/ \E i \in 1..MaxProcs : ProcessExits(i)

SpecDurable == Init /\ [][NextDurable]_vars

\* Lifecycle: the operations that change the registry and the process list,
\* on every name and for every outcome of the supervisor's commands; the
\* processes exit but write nothing, so no log file exists and start and
\* restart never get to write an offset.
NextLifecycle ==
  \/ \E n \in Names, now, okW \in BOOLEAN : \E okL, okD, okRun \in Outcome(now /\ okW) :
        Register(n, "s1", now, okW, okL, okD, okRun)
  \/ \E n \in Names, now, okW \in BOOLEAN : \E okL, okD, okRun \in Outcome(now /\ okW) :
        Update(n, NoUpdate, now, okW, okL, okD, okRun)
  \/ \E n \in Names, okL, okD, okRun \in BOOLEAN : Start(n, okL, okD, okRun, "none", TRUE, NoText, <<>>)
  \/ \E n \in Names, okS \in BOOLEAN : Stop(n, okS)
  \/ \E n \in Names, okF, okR \in BOOLEAN : Restart(n, okF, okR, "none", TRUE)
  \/ \E n \in Names, fromPm2, okW \in BOOLEAN : \E okD \in Outcome(fromPm2) : Delete(n, fromPm2, okD, okW)
  \/ \E i \in 1..MaxProcs : ProcessExits(i)

SpecLifecycle == Init /\ [][NextLifecycle]_vars

\* Updates: the update handler with every combination of supplied fields, on
\* one name whose stdout log is written, so that the entry it merges into has
\* a script, an environment and a log offset of its own.  The processes are
\* stopped but do not crash; pm2 delete and the write of the registry
\* document may fail.
NextUpdate ==
  \/ \E now \in BOOLEAN : Register("a", "s1", now, TRUE, TRUE, TRUE, TRUE)
  \/ \E upd \in Updates, apply, okW \in BOOLEAN : \E okD \in Outcome(apply /\ okW) :
        Update("a", upd, apply, okW, TRUE, okD, TRUE)
  \/ \E w \in {"none", "out"}, text \in {NoText, FetchFailed} :
        Start("a", TRUE, TRUE, TRUE, w, TRUE, text, <<>>)
  \/ \E okS \in BOOLEAN : Stop("a", okS)
  \/ \E fromPm2 \in BOOLEAN : Delete("a", fromPm2, TRUE, TRUE)

SpecUpdate == Init /\ [][NextUpdate]_vars

\* Create: the command line of pm2 start for every autorestart setting of
\* the entry -- absent after register, true or false after an update -- with
\* processes that exit, so that start, register and update create a process
\* where none is listed and in place of one that has crashed.
NextCreate ==
  \/ \E now \in BOOLEAN : Register("a", "s1", now, TRUE, TRUE, TRUE, TRUE)
  \/ \E upd \in AutorestartUpdates \cup {NoUpdate}, apply \in BOOLEAN :
        Update("a", upd, apply, TRUE, TRUE, TRUE, TRUE)
  \/ \E okRun \in BOOLEAN : Start("a", TRUE, TRUE, okRun, "none", TRUE, NoText, <<>>)
  \/ Stop("a", TRUE)
  \/ \E fromPm2 \in BOOLEAN : Delete("a", fromPm2, TRUE, TRUE)
  \/ \E i \in 1..MaxProcs : ProcessExits(i)

SpecCreate == Init /\ [][NextCreate]_vars

\* Store: the registry document under every handler that rewrites it, pure
\* loads (get-managed-processes and the start of a new controller) and damage
\* to the file from outside; the entry of "a" gets fields and a log offset,
\* and its process is stopped and started again.
NextStore ==
  \/ \E n \in Names : Register(n, "s1", FALSE, TRUE, TRUE, TRUE, TRUE)
  \/ \E upd \in Updates : Update("a", upd, FALSE, TRUE, TRUE, TRUE, TRUE)
  \/ \E w \in {"none", "out"} : Start("a", TRUE, TRUE, TRUE, w, TRUE, NoText, <<>>)
  \/ Stop("a", TRUE)
  \/ \E n \in Names, fromPm2, okW \in BOOLEAN : \E okD \in Outcome(fromPm2) :
        Delete(n, fromPm2, okD, okW)
  \/ \E okL \in BOOLEAN : GetStatus(okL)
  \/ \E processName \in {AllProcesses} \cup Names, okL \in BOOLEAN : GetPm2Status(processName, okL)
  \/ ControllerRestarts
  \/ FileDamaged
  \/ FileRemoved

SpecStore == Init /\ [][NextStore]_vars

\* Persist: the rewrite of the registry document in its two steps, the open
\* that truncates and the write, with loads of other handlers and the death
\* of the controller in between.
NextPersist ==
  \/ \E n \in Names : RegisterBegins(n, "s1")
  \/ \E n \in Names : DeleteBegins(n)
  \/ WriteCompletes
  \/ ControllerRestarts
  \/ \E okL \in BOOLEAN : GetStatus(okL)
  \/ \E n \in Names : Start(n, TRUE, TRUE, TRUE, "none", TRUE, NoText, <<>>)
  \/ \E n \in Names : Stop(n, TRUE)

SpecPersist == Init /\ [][NextPersist]_vars

\* Discovery: start on one registered name with every log text the address
\* detection may be given; the process writes no log.
NextDiscovery ==
  \/ Register("a", "s1", FALSE, TRUE, TRUE, TRUE, TRUE)
  \/ \E text \in Texts : Start("a", TRUE, TRUE, TRUE, "none", TRUE, text, <<>>)
  \/ Delete("a", TRUE, TRUE, TRUE)

SpecDiscovery == Init /\ [][NextDiscovery]_vars

\* Address: starts of one name whose process prints a link when it comes up,
\* or prints none in time; the log keeps the lines of earlier runs, and the
\* text the address detection reads is the tail of that log.
NextAddress ==
  \/ Register("a", "s1", FALSE, TRUE, TRUE, TRUE, TRUE)
  \/ \E printed \in SeqsUpTo(Hrefs, 1) :
        Start("a", TRUE, TRUE, TRUE, "out", TRUE,
              [TailText(logs, "a") EXCEPT !.links = @ \o printed], printed)
  \/ Stop("a", TRUE)
  \/ Restart("a", TRUE, TRUE, "none", TRUE)
  \/ ProcessExits(1)

SpecAddress == Init /\ [][NextAddress]_vars

\* Neighbours: calls on one name while another name is registered, with a
\* state file that is at times damaged or cannot be read when a call loads it.
NextNeighbours ==
  \/ \E n \in Names : Register(n, "s1", FALSE, TRUE, TRUE, TRUE, TRUE)
  \/ Update("a", [script |-> "s2"], FALSE, TRUE, TRUE, TRUE, TRUE)
  \/ \E w \in {"none", "out"} : Start("a", TRUE, TRUE, TRUE, w, TRUE, NoText, <<>>)
  \/ Restart("a", TRUE, TRUE, "out", TRUE)
  \/ Stop("a", TRUE)
  \/ \E n \in Names : Delete(n, FALSE, TRUE, TRUE)
  \/ \E fresh \in BOOLEAN : ReadLogs("a", "out", fresh, TRUE, TRUE)
  \/ GetStatus(TRUE)
  \/ Describe("a", TRUE)
  \/ FileUnreadable
  \/ FileReadable
  \/ FileDamaged

SpecNeighbours == Init /\ [][NextNeighbours]_vars

\* Interleaving: start calls that wait at their pm2 jlist while other calls,
\* starts of the same name among them, run; every command and every write
\* succeeds, and a process that is online writes to its stdout log.
NextInterleaved ==
  \/ Register("a", "s1", FALSE, TRUE, TRUE, TRUE, TRUE)
  \/ \E upd \in {[script |-> "s2"]} : Update("a", upd, FALSE, TRUE, TRUE, TRUE, TRUE)
  \/ \E id \in 1..MaxCalls : StartQueries(id, "a", TRUE)
  \/ \E id \in 1..MaxCalls : StartCommands(id, TRUE, TRUE, "out", TRUE)
  \/ Delete("a", TRUE, TRUE, TRUE)

SpecInterleaved == Init /\ [][NextInterleaved]_vars

(* ---------------- properties ---------------- *)

\* the persisted registry
Persisted == loadState(stateFile)

\* the positions of the command c for the name n in a command trace
Issued(cs, c, n) == {i \in 1..Len(cs) : cs[i] = Cmd(c, n)}

\* no command for n that creates, restarts or deletes a process
NoLifecycleCmd(cs, n) ==
  Issued(cs, "create", n) \cup Issued(cs, "restart", n) \cup Issued(cs, "delete", n) = {}

\* C1: a start of a name that is not in the persisted registry fails, leaves
\* the registry document as it was and issues no supervisor command.
C1_StartUnregisteredFails ==
  [][(lastOp'.op = "start" /\ ~IsRegistered(Persisted, lastOp'.name))
       => /\ lastOp'.result = "error"
          /\ cmds' = <<>>
          /\ stateFile' = stateFile
          /\ pm2' = pm2]_vars

C1_Witness ==
  /\ lastOp.op = "start"
  /\ lastOp.result = "error"
  /\ stateFile.kind = "ok"
  /\ ~IsRegistered(Persisted, lastOp.name)
  /\ HasProc(pm2, lastOp.name)

\* C2: the supervisor never holds two processes with the same registered name.
C2_AtMostOnePerName ==
  \A n \in Names : IsRegistered(Persisted, n) => CountProcs(pm2, n) <= 1

\* C3: a start (also the one register makes) that finds the name online issues
\* no create, restart or delete, is not an error and leaves the process list
\* as it was.
C3_OnlineStartIsNoOp ==
  [][(lastOp'.op \in {"start", "register"} /\ lastOp'.seen = "online")
       => /\ lastOp'.result = "ok"
          /\ NoLifecycleCmd(cmds', lastOp'.name)
          /\ pm2' = pm2]_vars

C3_Witness ==
  /\ lastOp.op = "start"
  /\ lastOp.seen = "online"
  /\ lastOp.result = "ok"
  /\ CountProcs(pm2, lastOp.name) = 1

\* C4: a start that finds the name stopped issues exactly one restart for
\* that name and no create.
C4_StoppedStartRestarts ==
  (lastOp.op \in {"start", "register"} /\ lastOp.seen = "stopped")
    => /\ Cardinality(Issued(cmds, "restart", lastOp.name)) = 1
       /\ Issued(cmds, "create", lastOp.name) = {}

C4_Witness ==
  /\ lastOp.op = "start"
  /\ lastOp.seen = "stopped"
  /\ lastOp.result = "ok"
  /\ HasOnline(pm2, lastOp.name)

\* C5: a start that finds the name in a status other than online or stopped
\* issues a delete for it and a create after that delete, and no create
\* before it.
C5_StaleStartDeletesThenCreates ==
  (lastOp.op \in {"start", "register"} /\ lastOp.seen \in Status \ {"online", "stopped"})
    => /\ Issued(cmds, "delete", lastOp.name) # {}
       /\ Issued(cmds, "create", lastOp.name) # {}
       /\ \A d \in Issued(cmds, "delete", lastOp.name), c \in Issued(cmds, "create", lastOp.name) :
            d < c

C5_Witness ==
  /\ lastOp.op = "start"
  /\ lastOp.seen = "errored"
  /\ lastOp.result = "ok"
  /\ cmds = <<Cmd("jlist", lastOp.name), Cmd("delete", lastOp.name),
              Cmd("create", lastOp.name), Cmd("logs", lastOp.name)>>

\* a fresh-only read that succeeded and handed out bytes of the log file
\* [from, to): read at the stored offset, or fetched by the fallback after
\* the bytes had been read
FreshBytes(op) ==
  /\ op.op = "readLogs"
  /\ op.fresh
  /\ op.result = "ok"
  /\ op.path = "incremental" \/ (op.path = "tail" /\ op.write = "failed")

\* C6: a fresh-only read, whatever the stream, hands out no byte that was in
\* the file it reads at the last offset capture of a start or restart.
C6_FreshReadsOnlyNewBytes ==
  (lastOp.op = "readLogs" /\ lastOp.fresh /\ lastOp.result = "ok" /\ lastOp.path = "incremental")
    => lastOp.from >= logs[lastOp.name][getPm2LogPath(lastOp.stream)].old

\* C7: of two fresh-only reads of the same log file that follow each other,
\* the second begins at the byte where the first ended.
C7_ConsecutiveFreshReadsDisjoint ==
  [][(/\ FreshBytes(lastOp)
      /\ FreshBytes(lastOp')
      /\ lastOp'.name = lastOp.name
      /\ getPm2LogPath(lastOp'.stream) = getPm2LogPath(lastOp.stream))
       => lastOp'.from = lastOp.to]_vars

\* C8: after a restart of a registered name that returned success, the
\* persisted logOffset is the size of the stdout log.
C8_RestartResetsOffset ==
  (/\ lastOp.op = "restart"
   /\ lastOp.result = "ok"
   /\ IsRegistered(Persisted, lastOp.name)
   /\ logs[lastOp.name].out.exists)
    => Persisted[lastOp.name].logOffset = logs[lastOp.name].out.size

\* C9: readLogs reads at the stored offset only when freshOnly is set and an
\* offset is recorded; in every other case it runs the supervisor's logs
\* command and returns its post-processed output.
C9_ReadLogsPathSelection ==
  lastOp.op = "readLogs"
    => IF lastOp.fresh /\ lastOp.tracked
       THEN lastOp.path \in {"incremental", "nonew", "tail"}
       ELSE lastOp.path = "tail" /\ cmds = <<Cmd("logs", lastOp.name)>>

\* C10: an operation whose write of the registry document failed reports a
\* failure.
C10_WriteFailureSurfaces ==
  lastOp.write = "failed" => lastOp.result = "error"

\* C11: a stop, restart or delete of a name that the supervisor does not list
\* ends without an error and leaves the process list as it was (a failed write
\* of the registry document aside).
C11_UnknownToSupervisorIsNoOp ==
  [][(/\ lastOp'.op \in {"stop", "restart", "delete"}
      /\ ~HasProc(pm2, lastOp'.name)
      /\ lastOp'.write # "failed")
       => /\ lastOp'.result = "ok"
          /\ pm2' = pm2]_vars

\* C13: an update of a name that is not in the persisted registry fails, leaves
\* the registry document as it was and issues no supervisor command, with
\* applyToPm2 set or not.
C13_UpdateUnregisteredFails ==
  [][(lastOp'.op = "update" /\ ~IsRegistered(Persisted, lastOp'.name))
       => /\ lastOp'.result = "error"
          /\ cmds' = <<>>
          /\ stateFile' = stateFile
          /\ pm2' = pm2]_vars

C13_Witness ==
  /\ lastOp.op = "update"
  /\ lastOp.apply
  /\ lastOp.result = "error"
  /\ stateFile.kind = "ok"
  /\ ~IsRegistered(Persisted, lastOp.name)
  /\ HasProc(pm2, lastOp.name)

\* C15: a delete whose write of the registry document does not fail returns
\* success whether the name was registered or not, the persisted registry is
\* then the one before without that name, and a second delete of the same name
\* right after leaves the persisted registry as the first left it.
C15_DeleteIsIdempotent ==
  [][(lastOp'.op = "delete" /\ lastOp'.write # "failed")
       => /\ lastOp'.result = "ok"
          /\ lastOp'.write = "ok"
          /\ ~IsRegistered(Persisted', lastOp'.name)
          /\ Persisted' = RemoveConfig(Persisted, lastOp'.name)
          /\ (lastOp.op = "delete" /\ lastOp.name = lastOp'.name /\ lastOp.write = "ok")
               => Persisted' = Persisted]_vars

C15_Witness ==
  /\ lastOp.op = "delete"
  /\ lastOp.result = "ok"
  /\ ~IsRegistered(Persisted, lastOp.name)
  /\ Persisted # EmptyRegistry
  /\ cmds = <<Cmd("delete", lastOp.name)>>
  /\ ~HasProc(pm2, lastOp.name)

\* C16: get-managed-processes lists every registered entry; an entry with no
\* supervisor descriptor of its name, or any entry when pm2 jlist could not be
\* read, is reported as stopped with no memory figure, and an entry with a
\* descriptor is reported with the status of a descriptor of its name.
C16_StatusOfRegistered ==
  lastOp.op = "getStatus"
    => /\ DOMAIN lastOp.servers = DOMAIN Persisted
       /\ \A n \in DOMAIN Persisted :
            IF lastOp.listed /\ HasProc(pm2, n)
            THEN \E i \in 1..Len(pm2) :
                    pm2[i].name = n /\ lastOp.servers[n].status = pm2[i].status
            ELSE lastOp.servers[n] = [status |-> "stopped", memory |-> NoMemory]

C16_Witness ==
  /\ lastOp.op = "getStatus"
  /\ lastOp.listed
  /\ \E n, m \in DOMAIN Persisted :
        /\ ~HasProc(pm2, n)
        /\ lastOp.servers[n].status = "stopped"
        /\ HasProc(pm2, m)
        /\ lastOp.servers[m].status = "online"

\* C12: an update with applyToPm2 that wrote the merged config issues a delete
\* for the name and a create after it, no restart, the registry entry holds
\* every supplied field, and the process it leaves runs the merged config.
C12_UpdateAppliesByRecreate ==
  (lastOp.op = "update" /\ lastOp.apply /\ lastOp.write = "ok")
    => /\ Issued(cmds, "delete", lastOp.name) # {}
       /\ Issued(cmds, "create", lastOp.name) # {}
       /\ \E d \in Issued(cmds, "delete", lastOp.name) :
             \A c \in Issued(cmds, "create", lastOp.name) : d < c
       /\ Issued(cmds, "restart", lastOp.name) = {}
       /\ \A f \in DOMAIN lastOp.upd : Persisted[lastOp.name][f] = lastOp.upd[f]
       /\ lastOp.result = "ok"
            => /\ HasProc(pm2, lastOp.name)
               /\ LastProc(pm2, lastOp.name).script = Persisted[lastOp.name].script
               /\ LastProc(pm2, lastOp.name).env = Persisted[lastOp.name].env

\* C14: an update that wrote the registry document leaves the entry with the
\* registry key as its name, every supplied field at the supplied value and
\* every other field, logOffset included, at the value it had before.
C14_UpdateMergesFieldwise ==
  [][(lastOp'.op = "update" /\ lastOp'.write = "ok")
       => /\ DOMAIN Persisted' = DOMAIN Persisted
          /\ IsRegistered(Persisted', lastOp'.name)
          /\ Persisted'[lastOp'.name].name = lastOp'.name
          /\ \A f \in {"script", "env", "logOffset"} :
                Persisted'[lastOp'.name][f] =
                  IF f \in DOMAIN lastOp'.upd THEN lastOp'.upd[f]
                  ELSE Persisted[lastOp'.name][f]]_vars

C14_Witness ==
  /\ lastOp.op = "update"
  /\ lastOp.write = "ok"
  /\ lastOp.upd = [env |-> {<<"HOST", "h">>}]
  /\ Persisted[lastOp.name].script = "s2"
  /\ Persisted[lastOp.name].env = {<<"HOST", "h">>}
  /\ Persisted[lastOp.name].logOffset > 0

\* C17: a fresh-only read with a recorded offset whose log file does not
\* exist is answered by the supervisor's logs command: it succeeds when that
\* command does, and the registry document and its logOffset stay as they were.
C17_MissingLogFallsBack ==
  [][(/\ lastOp'.op = "readLogs"
      /\ lastOp'.fresh
      /\ lastOp'.tracked
      /\ ~logs[lastOp'.name][getPm2LogPath(lastOp'.stream)].exists)
       => /\ lastOp'.path = "tail"
          /\ cmds' = <<Cmd("logs", lastOp'.name)>>
          /\ lastOp'.result = "ok" <=> lastOp'.tail = "ok"
          /\ lastOp'.write = "none"
          /\ stateFile' = stateFile
          /\ serverState' = Persisted]_vars

C17_Witness ==
  /\ lastOp.op = "readLogs"
  /\ lastOp.fresh
  /\ lastOp.tracked
  /\ ~logs[lastOp.name][getPm2LogPath(lastOp.stream)].exists
  /\ lastOp.path = "tail"
  /\ lastOp.result = "ok"
  /\ Persisted[lastOp.name].logOffset > 0

\* the loads that change nothing but the in-memory registry
PureLoads == {"boot", "getStatus"}

\* C18: a load never fails; it gives the empty registry when the state file
\* is missing, unreadable or not valid JSON, and the registry of the document
\* when the file holds one.
C18_LoadDegradesToEmpty ==
  [][lastOp'.op \in PureLoads
       => /\ lastOp'.result = "ok"
          /\ stateFile' = stateFile
          /\ stateFile.kind # "ok" => serverState' = EmptyRegistry
          /\ stateFile.kind = "ok" => serverState' = parse(stateFile.doc)]_vars

C18_Witness ==
  /\ lastOp.op \in PureLoads
  /\ stateFile.kind = "corrupt"
  /\ stateFile.doc # stringify(EmptyRegistry)
  /\ serverState = EmptyRegistry

\* C19: a load that runs while the registry document is being rewritten, or
\* after the controller died during the rewrite, gives the registry of the
\* previous document or that of the new one.
C19_RewriteIsAtomic ==
  [][(lastOp'.op \in PureLoads /\ stateFile'.kind = "partial")
       => serverState' \in {stateFile'.prev, parse(stateFile'.doc)}]_vars

\* C20: right after a successful write of the registry document a load gives
\* the registry that was written, names and fields with logOffset included;
\* this holds for the load of a newly started controller too.
C20_PersistLoadRoundTrip ==
  [][/\ lastOp'.write = "ok" => loadState(stateFile') = serverState'
     /\ (lastOp.write = "ok" /\ lastOp'.op \in PureLoads) => serverState' = serverState]_vars

C20_Witness ==
  /\ lastOp.op = "boot"
  /\ DOMAIN serverState = Names
  /\ serverState["a"].logOffset > 0
  /\ serverState["a"].env # NoEnv
  /\ serverState["b"].logOffset = NoOffset

\* the smallest element of a non-empty set of positions
First(S) == CHOOSE i \in S : \A j \in S : i <= j

\* a start that got past its reconcile step and whose log fetch gave a text
Detected(op) == op.op = "start" /\ op.reconcile = "ok" /\ op.text.fetched

\* C21: over a text with links, the address is the first link in text order
\* whose host is a loopback host when there is one, and the first link of the
\* text otherwise (trailing slashes removed).
C21_PrefersLoopbackHost ==
  (Detected(lastOp) /\ lastOp.text.links # <<>>)
    => LET ls == lastOp.text.links
           loop == {i \in 1..Len(ls) : hostOf(ls[i]) \in LoopbackHosts}
       IN lastOp.url = stripSlashes(ls[IF loop = {} THEN 1 ELSE First(loop)])

\* C22: over a text without links in which the word port, in any letter
\* case, is followed by a separator and a decimal number, the address is
\* http://localhost:<that number>.
C22_PortFallback ==
  (/\ Detected(lastOp)
   /\ lastOp.text.links = <<>>
   /\ lastOp.text.port.label \in PortLabels
   /\ lastOp.text.port.sep # "")
    => lastOp.url = <<"http://", "localhost", ":">> \o lastOp.text.port.digits

\* C23: a start whose reconcile step succeeded returns success, and it
\* carries no address when the log fetch failed or the text has neither a
\* link nor a port label.
C23_StartSucceedsWithoutAddress ==
  (lastOp.op = "start" /\ lastOp.reconcile = "ok")
    => /\ lastOp.result = "ok"
       /\ (\/ ~lastOp.text.fetched
           \/ lastOp.text.links = <<>> /\ lastOp.text.port = NoPortLine)
            => lastOp.url = NoUrl

C23_Witness ==
  /\ lastOp.op = "start"
  /\ lastOp.reconcile = "ok"
  /\ ~lastOp.text.fetched
  /\ ~logs[lastOp.name].out.exists
  /\ lastOp.result = "ok"
  /\ lastOp.url = NoUrl

\* C24: restart issues flush, then the restart command, then the offset
\* capture.  The restart command is issued whether the flush succeeded or
\* failed; the capture comes only after a restart command that completed, and
\* the offset it stores is the size the standard-output log has after the
\* restart.
C24_RestartOrder ==
  lastOp.op = "restart" =>
    /\ cmds = <<Cmd("flush", lastOp.name), Cmd("restart", lastOp.name)>>
    /\ lastOp.steps \in {<<"flush", "restart">>, <<"flush", "restart", "stat">>}
    /\ (lastOp.steps = <<"flush", "restart", "stat">>) <=> (lastOp.result = "ok")
    /\ lastOp.write # "none" => lastOp.result = "ok"
    /\ lastOp.write = "ok" =>
          /\ IsRegistered(Persisted, lastOp.name)
          /\ Persisted[lastOp.name].logOffset = logs[lastOp.name].out.size

\* a restart whose flush failed went on to restart the process, which wrote
\* to its log before the offset was captured
C24_Witness ==
  /\ lastOp.op = "restart"
  /\ lastOp.flush = "failed"
  /\ lastOp.result = "ok"
  /\ lastOp.write = "ok"
  /\ logs[lastOp.name].out.size > 0

\* C25: a fresh-only read of a tracked name whose log file holds p > 0 bytes
\* past the stored offset returns the Min(p, MaxBytes) bytes that start at
\* the stored offset and moves the persisted offset to the end of what it
\* returned; with nothing past the offset it reports no new logs and leaves
\* the offset alone.  Repeated reads of a log that no longer grows therefore
\* hand out each byte once and end with no new logs.
C25_FreshReadAdvances ==
  [][(/\ lastOp'.op = "readLogs"
      /\ lastOp'.fresh
      /\ lastOp'.tracked
      /\ logs[lastOp'.name][getPm2LogPath(lastOp'.stream)].exists)
       => LET n == lastOp'.name
              offset == Persisted[n].logOffset
              p == logs[n][getPm2LogPath(lastOp'.stream)].size - offset
          IN IF p > 0
             THEN /\ lastOp'.result = "ok"
                  /\ lastOp'.path = "incremental"
                  /\ lastOp'.from = offset
                  /\ lastOp'.to = offset + Min(p, MaxBytes)
                  /\ Persisted'[n].logOffset = offset + Min(p, MaxBytes)
             ELSE /\ lastOp'.path = "nonew"
                  /\ Persisted'[n].logOffset = offset]_vars

\* C26: when pm2 jlist fails or its output does not parse, both status tools
\* still return: get-managed-processes lists every registered entry as
\* stopped, and get-pm2-status answers not available with an empty list.
C26_ListFailureIsNotAnError ==
  /\ (lastOp.op = "getStatus" /\ ~lastOp.listed) =>
        /\ lastOp.result = "ok"
        /\ DOMAIN lastOp.servers = DOMAIN serverState
        /\ \A n \in DOMAIN lastOp.servers : lastOp.servers[n].status = "stopped"
  /\ (lastOp.op = "getPm2Status" /\ ~lastOp.listed) =>
        /\ lastOp.result = "ok"
        /\ lastOp.processes = <<>>

\* get-pm2-status could not list while a registered process was online
C26_Witness ==
  /\ lastOp.op = "getPm2Status"
  /\ ~lastOp.listed
  /\ IsRegistered(serverState, "a")
  /\ HasOnline(pm2, "a")

\* C27: a name enters the persisted registry only through register; no other
\* tool and no step of the processes adds one, whatever processes the
\* supervisor lists.
C27_OnlyRegisterAddsNames ==
  [][lastOp'.op # "register" => DOMAIN Persisted' \subseteq DOMAIN Persisted]_vars

\* a restart went through for a name that has a live process and a log file
\* but no registry entry
C27_Witness ==
  /\ lastOp.op = "restart"
  /\ lastOp.result = "ok"
  /\ logs[lastOp.name].out.exists
  /\ HasOnline(pm2, lastOp.name)
  /\ ~IsRegistered(Persisted, lastOp.name)

\* C28: the persisted logOffset of an entry that stays registered changes
\* only in a start, a restart or a fresh-only read; register over the name,
\* update, stop, describe, get-managed-processes and a read that is not
\* fresh-only leave it as it was.
C28_OffsetChangedOnlyByCapture ==
  [][\A n \in DOMAIN Persisted \cap DOMAIN Persisted' :
       Persisted'[n].logOffset # Persisted[n].logOffset
         => \/ lastOp'.op \in {"start", "restart"}
            \/ lastOp'.op = "readLogs" /\ lastOp'.fresh]_vars

\* C29: the process a create command makes runs without autorestart unless
\* the config says autorestart: true; the command carries --no-autorestart
\* exactly when the config's autorestart is false or absent.
C29_NoAutorestartUnlessEnabled ==
  [][\A n \in Names :
       (Issued(cmds', "create", n) # {} /\ lastOp'.result = "ok" /\ IsRegistered(serverState', n))
         => /\ HasProc(pm2', n)
            /\ LastProc(pm2', n).noAutorestart
                  <=> serverState'[n].autorestart \in {"false", Undefined}]_vars

\* a start replaced a crashed process of an entry with autorestart: true by
\* one created without the flag
C29_Witness ==
  /\ lastOp.op = "start"
  /\ lastOp.seen = "errored"
  /\ lastOp.result = "ok"
  /\ Issued(cmds, "create", "a") # {}
  /\ IsRegistered(serverState, "a")
  /\ serverState["a"].autorestart = "true"
  /\ ~LastProc(pm2, "a").noAutorestart

\* C30: a delete with deleteFromPm2 false removes the registry entry and
\* issues no supervisor command, so the process list, a live process of that
\* name included, stays as it was; with deleteFromPm2 true it issues pm2
\* delete for the name as well.
C30_DeleteLeavesProcessOnRequest ==
  [][lastOp'.op = "delete"
       => /\ ~IsRegistered(serverState', lastOp'.name)
          /\ lastOp'.write = "ok" => ~IsRegistered(Persisted', lastOp'.name)
          /\ IF lastOp'.apply
             THEN cmds' = <<Cmd("delete", lastOp'.name)>>
             ELSE cmds' = <<>> /\ pm2' = pm2]_vars

\* the entry of a running process was deleted and the process is still online
C30_Witness ==
  /\ lastOp.op = "delete"
  /\ ~lastOp.apply
  /\ lastOp.write = "ok"
  /\ ~IsRegistered(Persisted, lastOp.name)
  /\ HasOnline(pm2, lastOp.name)

\* C31: stop returns success for every name, registered or not and with a
\* process or without one; it neither loads nor writes the registry, its only
\* supervisor command is pm2 stop for the name, and it is idempotent: a second
\* stop with the same outcome of the command leaves the process list as the
\* first left it.
C31_StopIsBestEffort ==
  [][lastOp'.op = "stop"
       => /\ lastOp'.result = "ok"
          /\ stateFile' = stateFile
          /\ serverState' = serverState
          /\ cmds' = <<Cmd("stop", lastOp'.name)>>
          /\ \E okStop \in BOOLEAN :
                /\ pm2' = stopPm2Process(pm2, lastOp'.name, okStop)
                /\ stopPm2Process(pm2', lastOp'.name, okStop) = pm2']_vars

\* a stop took down the live process of a name that has no registry entry
C31_Witness ==
  /\ lastOp.op = "stop"
  /\ lastOp.result = "ok"
  /\ ~IsRegistered(Persisted, lastOp.name)
  /\ HasProc(pm2, lastOp.name)
  /\ ~HasOnline(pm2, lastOp.name)

\* C32: a call works on the registry it loaded itself.  When a start that
\* waited for the supervisor writes the registry document, what it writes is
\* the registry it loaded at its entry with its own logOffset put in,
\* whatever other calls loaded or changed while it waited.
C32_CallsOwnTheirLoadedState ==
  [][\A call \in inflight :
       (call \notin inflight' /\ lastOp'.result = "ok")
         => IF logs'[call.name].out.exists
            THEN /\ lastOp'.write = "ok"
                 /\ Persisted' = SetOffset(call.loaded, call.name, logs'[call.name].out.size)
            ELSE Persisted' = Persisted]_vars

\* the processes of the name n that are online
Live(procs, n) == {i \in 1..Len(procs) : procs[i].name = n /\ procs[i].status = "online"}

\* C33: no registered name has more than one live process, also when two
\* starts of the name both get the answer of pm2 jlist before either issues
\* its lifecycle command.
C33_OneLiveProcessPerName ==
  \A n \in DOMAIN Persisted : Cardinality(Live(pm2, n)) <= 1

\* the registry of the document on disk, when the document is whole
OnDisk(file) == IF file.kind \in {"ok", "unreadable"} THEN parse(file.doc) ELSE EmptyRegistry

\* the tools of the facade
Tools ==
  {"register", "update", "start", "stop", "restart", "delete", "describe", "getStatus", "readLogs"}

\* C34: a tool call on the name n leaves the entry of every other name in
\* the registry document as it was, also when the document could not be read
\* or parsed when the call loaded it.
C34_OtherEntriesUntouched ==
  [][lastOp'.op \in Tools
       => \A m \in DOMAIN OnDisk(stateFile) \ {lastOp'.name} :
             /\ m \in DOMAIN OnDisk(stateFile')
             /\ OnDisk(stateFile')[m] = OnDisk(stateFile)[m]]_vars

\* the bytes [from, to) of the log file a fresh-only read of the stream type
\* of n would return from the registry reg and the log files lg; from = to
\* when it would return none
WouldRead(reg, lg, n, type) ==
  LET file == lg[n][getPm2LogPath(type)]
      offset == IF IsRegistered(reg, n) /\ reg[n].logOffset # NoOffset THEN reg[n].logOffset ELSE 0
      readSize == IF file.exists /\ file.size > offset THEN Min(file.size - offset, MaxBytes) ELSE 0
  IN <<offset, offset + readSize>>

\* C35: a fresh-only read of one stream of a name leaves the bytes that a
\* fresh-only read of the name's other stream would return as they were.
C35_StreamsReadIndependently ==
  [][(lastOp'.op = "readLogs" /\ lastOp'.fresh /\ lastOp'.result = "ok")
       => \A type \in Streams :
             getPm2LogPath(type) # getPm2LogPath(lastOp'.stream)
               => WouldRead(Persisted', logs', lastOp'.name, type)
                    = WouldRead(Persisted, logs, lastOp'.name, type)]_vars

\* C36: the address reported by a start that restarted or created the
\* process is one the process wrote to its log after that lifecycle command;
\* a link that an earlier run left in the log is not reported.
C36_AddressIsFromThisRun ==
  [][(/\ lastOp'.op = "start"
      /\ lastOp'.result = "ok"
      /\ Issued(cmds', "restart", lastOp'.name) \cup Issued(cmds', "create", lastOp'.name) # {}
      /\ lastOp'.url # NoUrl)
       => LET before == logs[lastOp'.name].out.links
              after == logs'[lastOp'.name].out.links
          IN \E i \in (Len(before) + 1)..Len(after) : stripSlashes(after[i]) = lastOp'.url]_vars

\* C37: a start that finds the process online issues no lifecycle command
\* and still stores the current size of the stdout log as logOffset and
\* writes the registry document; once written, a fresh-only read right
\* after it has nothing to return, so the bytes
\* between the offset the entry had and that size are passed over.
C37_NoOpStartMovesOffset ==
  [][(/\ lastOp'.op = "start"
      /\ lastOp'.result = "ok"
      /\ lastOp'.seen = "online"
      /\ logs'[lastOp'.name].out.exists)
       => /\ NoLifecycleCmd(cmds', lastOp'.name)
          /\ pm2' = pm2
          /\ serverState'[lastOp'.name].logOffset = logs'[lastOp'.name].out.size
          /\ lastOp'.write # "none"
          /\ lastOp'.write = "ok"
               => /\ Persisted'[lastOp'.name].logOffset = logs'[lastOp'.name].out.size
                  /\ WouldRead(Persisted', logs', lastOp'.name, "out")
                       = <<logs'[lastOp'.name].out.size, logs'[lastOp'.name].out.size>>]_vars

\* a start of an online process moved the offset over bytes that no
\* fresh-only read had returned
C37_Witness ==
  /\ lastOp.op = "start"
  /\ lastOp.seen = "online"
  /\ lastOp.write = "ok"
  /\ lastOp.from # NoOffset
  /\ lastOp.from < lastOp.to
  /\ Persisted[lastOp.name].logOffset = lastOp.to

\* C38: when a restart has emptied the log files of a registered name, the
\* logOffset the registry document holds for the name at the end of the
\* operation is not beyond the end of the stdout log, whether the restart
\* command succeeded or failed.
C38_NoStaleOffsetAfterFlush ==
  [][(/\ lastOp'.op = "restart"
      /\ lastOp'.flush = "ok"
      /\ HasProc(pm2, lastOp'.name)
      /\ logs[lastOp'.name].out.exists
      /\ lastOp'.name \in DOMAIN Persisted')
       => \/ Persisted'[lastOp'.name].logOffset = NoOffset
          \/ Persisted'[lastOp'.name].logOffset <= logs'[lastOp'.name].out.size]_vars

\* C39: a read of the logs that opened a handle on a log file has closed it
\* when it returns.
C39_FreshReadClosesHandle ==
  (lastOp.op = "readLogs" /\ lastOp.opened) => lastOp.closed

====
